---- MODULE Spec2Model ----
(***************************************************************************)
(* Model of EventMessageCRUD                                               *)
(* (plugins/event_plugins/common/storage/event_message.py): the table of   *)
(* expected messages per sensor, its reconciliation (initialize /          *)
(* update_msgs), expiry roll (reset_timeout), arrival recording            *)
(* (update_on_receive), teardown (delete) and the read-only queries.       *)
(*                                                                         *)
(* Time is an integer number of ticks.  A calendar day is DayLen ticks and *)
(* a calendar month is MonthDays days.  Python's None is the value None,   *)
(* which is below every time and every payload.                            *)
(***************************************************************************)
EXTENDS Integers, Sequences, FiniteSets

\* ---------------------------------------------------------------- bounds
MaxTime == 3
MaxId == 2
DayLen == 2
MonthDays == 3

\* ------------------------------------------------------------- constants
None == -1

available_frequency == {"D", "M"}

available_source_type == {"base", "kafka"}

\* ---------------------------------------------------------------- inputs
Sensors == {"w1", "w2"}

MsgA == [frequency |-> "D", task_id |-> "a"]

MsgB == [frequency |-> "M", task_id |-> "b"]

MsgX == [frequency |-> "X", task_id |-> "x"]

NoMsg == [frequency |-> "", task_id |-> ""]

\* A character of a str passed where the list of messages is expected:
\* subscripting it with 'frequency' raises, which the model renders as a
\* frequency that no validator accepts.
Chr == [frequency |-> "", task_id |-> "chr"]

\* Arguments that are not a list of messages: None, and strings of some
\* lengths ("", "n", "no").
MalformedArgs ==
    {[type |-> "NoneType", items |-> <<>>],
     [type |-> "str", items |-> <<>>],
     [type |-> "str", items |-> <<Chr>>],
     [type |-> "str", items |-> <<Chr, Chr>>]}

Times == 0..MaxTime

\* The time a caller passes need not be the clock's: callers pass no time
\* (None: the clock is read), the last instant of the month, or the first
\* instant of the next month; both may be ahead of the clock.
CallerTimes == {None, DayLen * MonthDays - 1, DayLen * MonthDays}

MsgLists == {<<>>, <<MsgA>>, <<MsgB>>, <<MsgA, MsgB>>, <<MsgA, MsgA>>, <<MsgA, MsgX>>}

\* <<source_type, msg_list, dt, fault>> of the calls of initialize.
SyncInputs ==
    ({"kafka"} \X MsgLists \X CallerTimes \X {"none"})
    \cup ({"kafka"} \X {<<MsgB>>, <<MsgA, MsgB>>} \X {None}
             \X {"insert", "update_msgs", "reset_timeout"})
    \cup ({"nosuch"} \X {<<MsgA>>} \X {None} \X {"none"})

\* <<base_time, fault>> of the calls of reset_timeout.
ResetInputs == (CallerTimes \X {"none"}) \cup {<<None, "reset_timeout">>}

\* <<sensor_name, match_wanted, receive_msg, fault>> of update_on_receive.
ArrivalInputs ==
    ({"w1"} \X {MsgA, MsgB} \X {None, 0} \X {"none"})
    \cup {<<"w2", MsgA, 0, "none">>, <<"w1", MsgA, 0, "update_on_receive">>}

\* db is the committed table, session the uncommitted work of the callers
\* that run initialize step by step (idle wherever calls run one at a time).
VARIABLES db, nextId, clock, pre, last, session

vars == <<db, nextId, clock, pre, last, session>>

\* ------------------------------------------------------- timeout policy
MonthLen == DayLen * MonthDays

EndOfDay(t) == (t \div DayLen) * DayLen + (DayLen - 1)

EndOfMonth(t) == (t \div MonthLen) * MonthLen + (MonthLen - 1)

timeout(msg, now) == IF msg.frequency = "D" THEN EndOfDay(now) ELSE EndOfMonth(now)

get_now == clock

get_timeout(st, msg) == timeout(msg, get_now)

\* -------------------------------------------------------------- helpers
InList(m, list) == \E i \in 1..Len(list) : list[i] = m

get_sensor_messages(store, w) == {r \in store : r.name = w}

\* EventMessage(...) for every element of msgs can be built: the timeout
\* policy is found for the source type and both validators accept.
Constructible(st, msgs) ==
    /\ Len(msgs) > 0 => st \in available_source_type
    /\ \A i \in 1..Len(msgs) : msgs[i].frequency \in available_frequency

EventMessage(id, name, msg, st) ==
    [id |-> id, name |-> name, msg |-> msg, source_type |-> st,
     frequency |-> msg.frequency, last_receive |-> None,
     last_receive_time |-> None, timeout |-> get_timeout(st, msg)]

NewRecords(w, st, msgs, first) ==
    {EventMessage(first + i - 1, w, msgs[i], st) : i \in 1..Len(msgs)}

Outcome(ok, store, next) == [ok |-> ok, db |-> store, nextId |-> next]

\* ------------------------------------------------------------ operations
\* Every operation is a function of the committed store it starts from and
\* yields the committed store it leaves behind: provide_session commits when
\* the outermost call returns and rolls back what is uncommitted when it
\* raises.  fault names the step at which the store (or the policy) raises.

\* initialize, else branch: one record per element of msg_list, one commit.
insert_msgs(store, next, w, st, msg_list, fault) ==
    IF ~Constructible(st, msg_list) \/ fault = "insert"
    THEN Outcome(FALSE, store, next)
    ELSE Outcome(TRUE, store \cup NewRecords(w, st, msg_list, next),
                 next + Len(msg_list))

\* update_msgs without its delete of the records no longer wanted.
update_msgs_no_delete(store, next, w, st, msg_list, fault) ==
    LET kept == {r.msg : r \in get_sensor_messages(store, w)}
        IsNew(m) == m \notin kept
        new_msgs == SelectSeq(msg_list, IsNew)
    IN  IF ~Constructible(st, new_msgs) \/ fault = "update_msgs"
        THEN Outcome(FALSE, store, next)
        ELSE Outcome(TRUE, store \cup NewRecords(w, st, new_msgs, next),
                     next + Len(new_msgs))

\* update_msgs that takes every wanted message for a new one.
update_msgs_reinsert(store, next, w, st, msg_list, fault) ==
    LET exist_records == get_sensor_messages(store, w)
        del_records == {r \in exist_records : ~InList(r.msg, msg_list)}
    IN  IF ~Constructible(st, msg_list) \/ fault = "update_msgs"
        THEN Outcome(FALSE, store, next)
        ELSE Outcome(TRUE,
                     (store \ del_records) \cup NewRecords(w, st, msg_list, next),
                     next + Len(msg_list))

\* update_msgs that replaces the records of the sensor by fresh ones.
update_msgs_replace(store, next, w, st, msg_list, fault) ==
    LET exist_records == get_sensor_messages(store, w)
    IN  IF ~Constructible(st, msg_list) \/ fault = "update_msgs"
        THEN Outcome(FALSE, store, next)
        ELSE Outcome(TRUE,
                     (store \ exist_records) \cup NewRecords(w, st, msg_list, next),
                     next + Len(msg_list))

update_msgs(store, next, w, st, msg_list, fault) ==
    LET exist_records == get_sensor_messages(store, w)
        del_records == {r \in exist_records : ~InList(r.msg, msg_list)}
        kept == {r.msg : r \in exist_records \ del_records}
        IsNew(m) == m \notin kept
        new_msgs == SelectSeq(msg_list, IsNew)
    IN  IF ~Constructible(st, new_msgs) \/ fault = "update_msgs"
        THEN Outcome(FALSE, store, next)
        ELSE Outcome(TRUE,
                     (store \ del_records) \cup NewRecords(w, st, new_msgs, next),
                     next + Len(new_msgs))

\* reset_timeout raises when the store raises (fault) and when a timeout has
\* to be recomputed for a source type the plugin factory does not know.

\* reset_timeout that clears the received fields and keeps the old timeout.
reset_timeout_stale(store, next, w, st, base_time, fault) ==
    LET bt == IF base_time = None THEN get_now ELSE base_time
        update_records == {r \in get_sensor_messages(store, w) : r.timeout < bt}
        Rolled(r) == [r EXCEPT !.last_receive_time = None,
                               !.last_receive = None]
    IN  IF (update_records # {} /\ st \notin available_source_type)
           \/ fault = "reset_timeout"
        THEN Outcome(FALSE, store, next)
        ELSE Outcome(TRUE,
                     (store \ update_records) \cup {Rolled(r) : r \in update_records},
                     next)

\* reset_timeout without the filter on the timeout.
reset_timeout_all(store, next, w, st, base_time, fault) ==
    LET bt == IF base_time = None THEN get_now ELSE base_time
        update_records == get_sensor_messages(store, w)
        Rolled(r) == [r EXCEPT !.last_receive_time = None,
                               !.last_receive = None,
                               !.timeout = get_timeout(st, r.msg)]
    IN  IF (update_records # {} /\ st \notin available_source_type)
           \/ fault = "reset_timeout"
        THEN Outcome(FALSE, store, next)
        ELSE Outcome(TRUE,
                     (store \ update_records) \cup {Rolled(r) : r \in update_records},
                     next)

\* reset_timeout that forgets to clear last_receive.
reset_timeout_keep_receive(store, next, w, st, base_time, fault) ==
    LET bt == IF base_time = None THEN get_now ELSE base_time
        update_records == {r \in get_sensor_messages(store, w) : r.timeout < bt}
        Rolled(r) == [r EXCEPT !.last_receive_time = None,
                               !.timeout = get_timeout(st, r.msg)]
    IN  IF (update_records # {} /\ st \notin available_source_type)
           \/ fault = "reset_timeout"
        THEN Outcome(FALSE, store, next)
        ELSE Outcome(TRUE,
                     (store \ update_records) \cup {Rolled(r) : r \in update_records},
                     next)

\* reset_timeout that also rolls the records whose timeout is base_time.
reset_timeout_le(store, next, w, st, base_time, fault) ==
    LET bt == IF base_time = None THEN get_now ELSE base_time
        update_records == {r \in get_sensor_messages(store, w) : r.timeout <= bt}
        Rolled(r) == [r EXCEPT !.last_receive_time = None,
                               !.last_receive = None,
                               !.timeout = get_timeout(st, r.msg)]
    IN  IF (update_records # {} /\ st \notin available_source_type)
           \/ fault = "reset_timeout"
        THEN Outcome(FALSE, store, next)
        ELSE Outcome(TRUE,
                     (store \ update_records) \cup {Rolled(r) : r \in update_records},
                     next)

reset_timeout(store, next, w, st, base_time, fault) ==
    LET bt == IF base_time = None THEN get_now ELSE base_time
        update_records == {r \in get_sensor_messages(store, w) : r.timeout < bt}
        Rolled(r) == [r EXCEPT !.last_receive_time = None,
                               !.last_receive = None,
                               !.timeout = get_timeout(st, r.msg)]
    IN  IF (update_records # {} /\ st \notin available_source_type)
           \/ fault = "reset_timeout"
        THEN Outcome(FALSE, store, next)
        ELSE Outcome(TRUE,
                     (store \ update_records) \cup {Rolled(r) : r \in update_records},
                     next)

\* initialize whose update branch stops after update_msgs.
initialize_no_roll(store, next, w, st, msg_list, dt, fault) ==
    IF get_sensor_messages(store, w) # {}
    THEN update_msgs(store, next, w, st, msg_list, fault)
    ELSE insert_msgs(store, next, w, st, msg_list, fault)

initialize(store, next, w, st, msg_list, dt, fault) ==
    IF get_sensor_messages(store, w) # {}
    THEN LET t == IF dt = None THEN get_now ELSE dt
             u == update_msgs(store, next, w, st, msg_list, fault)
         IN  IF ~u.ok THEN u
             ELSE reset_timeout(u.db, u.nextId, w, st, t, fault)
    ELSE insert_msgs(store, next, w, st, msg_list, fault)

\* initialize with a msg_list that is not a list. type is the Python type of
\* the argument and items is what iterating over it yields. None cannot be
\* iterated, in the loop of the else branch as little as in notin_ of
\* update_msgs. A str is iterated character by character; a character has no
\* key 'frequency', so no record is built of it (Chr). On the update branch
\* the str reaches notin_ of SQLAlchemy first, which iterates it or rejects
\* it, depending on the installed version (in_accepts_str).
initialize_raw(store, next, w, st, raw, dt, in_accepts_str) ==
    IF raw.type = "NoneType"
    THEN Outcome(FALSE, store, next)
    ELSE IF get_sensor_messages(store, w) # {} /\ ~in_accepts_str
         THEN Outcome(FALSE, store, next)
         ELSE initialize(store, next, w, st, raw.items, dt, "none")

\* update_on_receive that also moves the timeout to the current window.
update_on_receive_roll(store, next, w, match_wanted, receive_msg, fault) ==
    LET update_record == {r \in get_sensor_messages(store, w) : r.msg = match_wanted}
        Received(r) == [r EXCEPT !.last_receive_time = get_now,
                                 !.last_receive = receive_msg,
                                 !.timeout = timeout(r.msg, get_now)]
    IN  IF fault = "update_on_receive"
        THEN Outcome(FALSE, store, next)
        ELSE Outcome(TRUE,
                     (store \ update_record) \cup {Received(r) : r \in update_record},
                     next)

\* update_on_receive that filters on the message alone, not on the sensor.
update_on_receive_any_sensor(store, next, w, match_wanted, receive_msg, fault) ==
    LET update_record == {r \in store : r.msg = match_wanted}
        Received(r) == [r EXCEPT !.last_receive_time = get_now,
                                 !.last_receive = receive_msg]
    IN  IF fault = "update_on_receive"
        THEN Outcome(FALSE, store, next)
        ELSE Outcome(TRUE,
                     (store \ update_record) \cup {Received(r) : r \in update_record},
                     next)

\* update_on_receive that counts the receipts of a record that was already
\* received instead of storing the message.
update_on_receive_count(store, next, w, match_wanted, receive_msg, fault) ==
    LET update_record == {r \in get_sensor_messages(store, w) : r.msg = match_wanted}
        Received(r) == [r EXCEPT !.last_receive_time = get_now,
                                 !.last_receive = IF r.last_receive = None
                                                  THEN receive_msg
                                                  ELSE r.last_receive + 1]
    IN  IF fault = "update_on_receive"
        THEN Outcome(FALSE, store, next)
        ELSE Outcome(TRUE,
                     (store \ update_record) \cup {Received(r) : r \in update_record},
                     next)

update_on_receive(store, next, w, match_wanted, receive_msg, fault) ==
    LET update_record == {r \in get_sensor_messages(store, w) : r.msg = match_wanted}
        Received(r) == [r EXCEPT !.last_receive_time = get_now,
                                 !.last_receive = receive_msg]
    IN  IF fault = "update_on_receive"
        THEN Outcome(FALSE, store, next)
        ELSE Outcome(TRUE,
                     (store \ update_record) \cup {Received(r) : r \in update_record},
                     next)

\* delete without the filter on the sensor name.
delete_all(store, next, w, fault) ==
    IF fault = "delete"
    THEN Outcome(FALSE, store, next)
    ELSE Outcome(TRUE, {}, next)

\* delete whose bulk delete is never committed.
delete_no_commit(store, next, w, fault) ==
    IF fault = "delete"
    THEN Outcome(FALSE, store, next)
    ELSE Outcome(TRUE, store, next)

delete(store, next, w, fault) ==
    IF fault = "delete"
    THEN Outcome(FALSE, store, next)
    ELSE Outcome(TRUE, store \ get_sensor_messages(store, w), next)

\* --------------------------------------------------------------- queries
ALL_RECEIVED == "ALL_RECEIVED"

NOT_ALL_RECEIVED == "NOT_ALL_RECEIVED"

\* status that tests the truth value of last_receive ("not r.last_receive").
status_truthy(store, w) ==
    IF \E r \in get_sensor_messages(store, w) :
           r.last_receive \in {None, 0} \/ r.last_receive_time = None
    THEN NOT_ALL_RECEIVED
    ELSE ALL_RECEIVED

status(store, w) ==
    IF \E r \in get_sensor_messages(store, w) :
           r.last_receive = None \/ r.last_receive_time = None
    THEN NOT_ALL_RECEIVED
    ELSE ALL_RECEIVED

\* The queries return lists; the model keeps the set of their elements.
get_unreceived_msgs(store, w) ==
    {r.msg : r \in {x \in get_sensor_messages(store, w) :
                       x.last_receive = None /\ x.last_receive_time = None}}

have_successed_msgs(store, w, received_msgs) ==
    LET successed_msgs ==
            {r.msg : r \in {x \in get_sensor_messages(store, w) :
                               /\ x.last_receive_time # None
                               /\ x.last_receive_time < x.timeout}}
    IN  {m \in successed_msgs : ~InList(m, received_msgs)}

\* ----------------------------------------------------------- the machine
\* pre is the committed store before the last call and last describes that
\* call: they are what the properties below compare the store against.
Call(op, w, st, msgs, dt, match, payload, fault, ok) ==
    [op |-> op, w |-> w, st |-> st, msgs |-> msgs, dt |-> dt, match |-> match,
     payload |-> payload, fault |-> fault, ok |-> ok]

\* The callers that may run initialize for one sensor at the same time.
Callers == {"c1", "c2"}

\* A session with nothing pending. pc is the statement the caller is at,
\* msgs and dt its arguments, del the rows its bulk delete removed, add the
\* objects it added (built when the clock read at).
IdleSession ==
    [pc |-> "idle", msgs |-> <<>>, dt |-> None, del |-> {}, add |-> <<>>, at |-> None]

Init ==
    /\ session = [c \in Callers |-> IdleSession]
    /\ db = {}
    /\ nextId = 1
    /\ clock = 0
    /\ pre = {}
    /\ last = Call("init", "w1", "kafka", <<>>, None, NoMsg, None, "none", TRUE)

Commit(o, call) ==
    /\ o.nextId - 1 <= MaxId
    /\ pre' = db
    /\ db' = o.db
    /\ nextId' = o.nextId
    /\ last' = call
    /\ UNCHANGED <<clock, session>>

Sync ==
    \E in \in SyncInputs :
        LET o == initialize(db, nextId, "w1", in[1], in[2], in[3], in[4])
        IN  Commit(o, Call("sync", "w1", in[1], in[2], in[3], NoMsg, None, in[4], o.ok))

ResetExpired ==
    \E in \in ResetInputs :
        LET o == reset_timeout(db, nextId, "w1", "kafka", in[1], in[2])
        IN  Commit(o, Call("reset", "w1", "kafka", <<>>, in[1], NoMsg, None, in[2], o.ok))

RecordArrival ==
    \E in \in ArrivalInputs :
        LET o == update_on_receive(db, nextId, in[1], in[2], in[3], in[4])
        IN  Commit(o, Call("arrival", in[1], "kafka", <<>>, None, in[2], in[3], in[4], o.ok))

Delete ==
    \E fault \in {"none", "delete"} :
        LET o == delete(db, nextId, "w1", fault)
        IN  Commit(o, Call("delete", "w1", "kafka", <<>>, None, NoMsg, None, fault, o.ok))

Tick ==
    /\ clock < MaxTime
    /\ clock' = clock + 1
    /\ pre' = db
    /\ last' = Call("tick", "w1", "kafka", <<>>, None, NoMsg, None, "none", TRUE)
    /\ UNCHANGED <<db, nextId, session>>

Next == Sync \/ ResetExpired \/ RecordArrival \/ Delete \/ Tick

Spec == Init /\ [][Next]_vars

\* ---- Two sensors that share the table; callers that pass anything ----

MultiLists == {<<MsgA>>, <<MsgB>>}

SyncAny ==
    \E w \in Sensors : \E msg_list \in MultiLists :
        LET o == initialize(db, nextId, w, "kafka", msg_list, None, "none")
        IN  Commit(o, Call("sync", w, "kafka", msg_list, None, NoMsg, None, "none", o.ok))

ResetAny ==
    \E w \in Sensors :
        LET o == reset_timeout(db, nextId, w, "kafka", None, "none")
        IN  Commit(o, Call("reset", w, "kafka", <<>>, None, NoMsg, None, "none", o.ok))

ArrivalAny ==
    \E w \in Sensors : \E match_wanted \in {MsgA, MsgB} :
        LET o == update_on_receive(db, nextId, w, match_wanted, 0, "none")
        IN  Commit(o, Call("arrival", w, "kafka", <<>>, None, match_wanted, 0, "none", o.ok))

DeleteAny ==
    \E w \in Sensors :
        LET o == delete(db, nextId, w, "none")
        IN  Commit(o, Call("delete", w, "kafka", <<>>, None, NoMsg, None, "none", o.ok))

SyncMalformed ==
    \E w \in Sensors : \E raw \in MalformedArgs : \E in_accepts_str \in BOOLEAN :
        LET o == initialize_raw(db, nextId, w, "kafka", raw, None, in_accepts_str)
        IN  Commit(o, Call(IF raw.type = "str" THEN "sync_str" ELSE "sync_none",
                           w, "kafka", raw.items, None, NoMsg, None, "none", o.ok))

NextMulti == SyncAny \/ SyncMalformed \/ ResetAny \/ ArrivalAny \/ DeleteAny \/ Tick

SpecMulti == Init /\ [][NextMulti]_vars

\* ---- The scenario: declare A (daily) and B (monthly), receive both, and
\* ---- reset two days later. In the calls of the scenario the field dt of
\* ---- the call record keeps t0, the time of the sync.

TwoDays == DayLen + DayLen

ScenarioPayloads == {0, 1}

\* The time up to which the clock may advance before the next call.
ScenarioUntil ==
    CASE last.op = "init" -> MonthLen - 1 - TwoDays
      [] last.op = "sc_sync" -> last.dt + 1
      [] last.op \in {"sc_arrival_a", "sc_arrival_b"} -> last.dt + TwoDays
      [] OTHER -> clock

ScenarioAdvance ==
    /\ clock < ScenarioUntil
    /\ clock' = clock + 1
    /\ UNCHANGED <<db, nextId, pre, last, session>>

ScenarioSync ==
    /\ last.op = "init"
    /\ \E msg_list \in {<<MsgA, MsgB>>, <<MsgB, MsgA>>} :
           LET o == initialize(db, nextId, "w1", "kafka", msg_list, clock, "none")
           IN  Commit(o, Call("sc_sync", "w1", "kafka", msg_list, clock, NoMsg, None,
                              "none", o.ok))

ScenarioArrivalA ==
    /\ last.op = "sc_sync"
    /\ clock = last.dt + 1
    /\ \E receive_msg \in ScenarioPayloads :
           LET o == update_on_receive(db, nextId, "w1", MsgA, receive_msg, "none")
           IN  Commit(o, Call("sc_arrival_a", "w1", "kafka", <<>>, last.dt, MsgA,
                              receive_msg, "none", o.ok))

ScenarioArrivalB ==
    /\ last.op = "sc_arrival_a"
    /\ \E receive_msg \in ScenarioPayloads :
           LET o == update_on_receive(db, nextId, "w1", MsgB, receive_msg, "none")
           IN  Commit(o, Call("sc_arrival_b", "w1", "kafka", <<>>, last.dt, MsgB,
                              receive_msg, "none", o.ok))

ScenarioReset ==
    /\ last.op = "sc_arrival_b"
    /\ clock = last.dt + TwoDays
    /\ \E base_time \in {None, clock} :
           LET o == reset_timeout(db, nextId, "w1", "kafka", base_time, "none")
           IN  Commit(o, Call("sc_reset", "w1", "kafka", <<>>, base_time, NoMsg, None,
                              "none", o.ok))

NextScenario ==
    \/ ScenarioAdvance
    \/ ScenarioSync
    \/ ScenarioArrivalA
    \/ ScenarioArrivalB
    \/ ScenarioReset

SpecScenario == Init /\ [][NextScenario]_vars

\* ---- Callers that run initialize for the same sensor at the same time,
\* ---- one statement of the store at a time. A query sees what is committed
\* ---- and what its own session has pending; nothing in the code or in the
\* ---- table (no lock, no unique key) makes one caller wait for the other.

ConcurrentLists == {<<MsgA>>, <<MsgA, MsgB>>}

\* The objects a session added, as the rows its commit writes.
Flushed(w, st, s, first) ==
    {[EventMessage(first + i - 1, w, s.add[i], st)
         EXCEPT !.timeout = timeout(s.add[i], s.at)] : i \in 1..Len(s.add)}

\* Line 79: the count query that chooses the branch; line 80 reads the clock.
CountQuery(c) ==
    /\ session[c].pc = "idle"
    /\ \E msg_list \in ConcurrentLists :
           session' = [session EXCEPT ![c] =
               [IdleSession EXCEPT
                   !.pc = IF get_sensor_messages(db, "w1") # {}
                          THEN "delete" ELSE "insert",
                   !.msgs = msg_list,
                   !.dt = IF get_sensor_messages(db, "w1") # {}
                          THEN get_now ELSE None]]
    /\ UNCHANGED <<db, nextId, clock, pre, last>>

\* Lines 84-94: the else branch builds and adds one object per message.
AddAll(c) ==
    /\ session[c].pc = "insert"
    /\ session' = [session EXCEPT ![c].pc = "commit_insert",
                                  ![c].add = session[c].msgs,
                                  ![c].at = get_now]
    /\ UNCHANGED <<db, nextId, clock, pre, last>>

\* Lines 107-109: the bulk delete of the rows whose msg is not wanted.
DeleteUnwanted(c) ==
    /\ session[c].pc = "delete"
    /\ session' = [session EXCEPT ![c].pc = "select",
                       ![c].del = {r.id : r \in {x \in get_sensor_messages(db, "w1") :
                                                     ~InList(x.msg, session[c].msgs)}}]
    /\ UNCHANGED <<db, nextId, clock, pre, last>>

\* Lines 111-129: the messages without a row are built and added.
AddMissing(c) ==
    /\ session[c].pc = "select"
    /\ LET kept == {r.msg : r \in {x \in get_sensor_messages(db, "w1") :
                                        x.id \notin session[c].del}}
           IsNew(m) == m \notin kept
       IN  session' = [session EXCEPT ![c].pc = "commit_update",
                                     ![c].add = SelectSeq(session[c].msgs, IsNew),
                                     ![c].at = get_now]
    /\ UNCHANGED <<db, nextId, clock, pre, last>>

\* Line 95: session.commit() of the else branch; initialize returns.
CommitInsert(c) ==
    /\ session[c].pc = "commit_insert"
    /\ nextId + Len(session[c].add) - 1 <= MaxId
    /\ db' = db \cup Flushed("w1", "kafka", session[c], nextId)
    /\ nextId' = nextId + Len(session[c].add)
    /\ session' = [session EXCEPT ![c] = IdleSession]
    /\ UNCHANGED <<clock, pre, last>>

\* Line 130: session.commit() of update_msgs writes the deletes and the
\* inserts.
CommitUpdate(c) ==
    /\ session[c].pc = "commit_update"
    /\ nextId + Len(session[c].add) - 1 <= MaxId
    /\ db' = {r \in db : r.id \notin session[c].del}
                 \cup Flushed("w1", "kafka", session[c], nextId)
    /\ nextId' = nextId + Len(session[c].add)
    /\ session' = [session EXCEPT ![c].pc = "reset", ![c].del = {},
                                  ![c].add = <<>>, ![c].at = None]
    /\ UNCHANGED <<clock, pre, last>>

\* Line 82: reset_timeout(base_time=dt) with its own commit; initialize
\* returns.
RollExpired(c) ==
    /\ session[c].pc = "reset"
    /\ LET o == reset_timeout(db, nextId, "w1", "kafka", session[c].dt, "none")
       IN  db' = o.db
    /\ session' = [session EXCEPT ![c] = IdleSession]
    /\ UNCHANGED <<nextId, clock, pre, last>>

NextConcurrent ==
    \/ \E c \in Callers :
           \/ CountQuery(c)
           \/ AddAll(c)
           \/ CommitInsert(c)
           \/ DeleteUnwanted(c)
           \/ AddMissing(c)
           \/ CommitUpdate(c)
           \/ RollExpired(c)
    \/ Tick

SpecConcurrent == Init /\ [][NextConcurrent]_vars

\* ------------------------------------------------------------ properties
Range(list) == {list[i] : i \in 1..Len(list)}

Patterns(store, w) == {r.msg : r \in get_sensor_messages(store, w)}

Awaiting(r) == r.last_receive = None /\ r.last_receive_time = None

Satisfied(r) == r.last_receive # None /\ r.last_receive_time # None

\* The base time the last call of reset_timeout compared the timeouts with.
LastBaseTime == IF last.dt = None THEN clock ELSE last.dt

Expired(r) == r.name = last.w /\ r.timeout < LastBaseTime

\* The record of store with the id of r.
Same(store, r) == {x \in store : x.id = r.id}

\* C1: after a successful sync(w, P, t) the patterns with a record for w are
\* exactly the patterns of P, whatever w had before.
C1_ReconciliationCorrect ==
    (last.op = "sync" /\ last.ok) =>
        Patterns(db, last.w) = Range(last.msgs)

\* A successful sync over records that shared no pattern with P: every old
\* record was deleted and every pattern of P inserted.
C1_Witness ==
    /\ last.op = "sync" /\ last.ok
    /\ Patterns(pre, last.w) # {}
    /\ Range(last.msgs) # {}
    /\ Patterns(pre, last.w) \cap Range(last.msgs) = {}
    /\ db # pre

\* C2: a successful sync(w, P, t) followed immediately by the same call
\* (same source type, patterns and time, the clock not advanced) leaves the
\* store as the first call left it.
C2_SyncIdempotent ==
    [][(last.op = "sync" /\ last.ok /\ last' = last /\ clock' = clock)
        => db' = db]_vars

\* The state after the second of two equal successful syncs: nothing changed,
\* and a record that had been received is still there with its fields.
C2_Witness ==
    /\ last.op = "sync" /\ last.ok
    /\ db = pre
    /\ Patterns(db, last.w) = Range(last.msgs)
    /\ \E r \in get_sensor_messages(db, last.w) : Satisfied(r)
    /\ \E r \in get_sensor_messages(db, last.w) : Awaiting(r)

\* C3 as stated: after reset_timeout every record that was past its timeout
\* is awaiting and its new timeout is strictly after the time it was
\* recomputed at.
C3_RolledStrictlyLater ==
    (last.op = "reset" /\ last.ok) =>
        \A r \in pre : Expired(r) =>
            \E x \in Same(db, r) : Awaiting(x) /\ x.timeout > clock

\* The last tick of the day, or month, of t: 23:59:59.
IsWindowEnd(msg, t) == timeout(msg, t) = t

\* C3 amended: after reset_timeout every record that was past its timeout is
\* awaiting and its new timeout is at or after the time it was recomputed
\* at, strictly after unless that time is the last instant of its window.
C3_RolledNotEarlier ==
    (last.op = "reset" /\ last.ok) =>
        \A r \in pre : Expired(r) =>
            \E x \in Same(db, r) :
                /\ Awaiting(x)
                /\ x.timeout >= clock
                /\ ~IsWindowEnd(r.msg, clock) => x.timeout > clock

\* A reset that rolled a received daily and a received monthly record.
C3_Witness ==
    /\ last.op = "reset" /\ last.ok
    /\ \E r \in pre : Expired(r) /\ Satisfied(r) /\ r.frequency = "D"
    /\ \E r \in pre : Expired(r) /\ Satisfied(r) /\ r.frequency = "M"

\* C4: reset_timeout leaves every record whose timeout is at or after the
\* base time as it was, the one whose timeout is the base time included.
C4_NoEarlyReset ==
    last.op = "reset" =>
        \A r \in pre : (r.name = last.w /\ r.timeout >= LastBaseTime) => r \in db

\* A reset that rolled one record and kept a received record whose timeout
\* was the base time exactly.
C4_Witness ==
    /\ last.op = "reset" /\ last.ok
    /\ \E r \in pre : Expired(r) /\ r \notin db
    /\ \E r \in pre : /\ r.name = last.w
                       /\ r.timeout = LastBaseTime
                       /\ Satisfied(r)
                       /\ r \in db

\* C5: a record received before its timeout and not among the observed
\* messages is carried over while the clock is before its timeout, and no
\* longer once the clock has reached the timeout, reset or not.
C5_CarryOverUntilExpiry ==
    \A r \in get_sensor_messages(db, "w1") :
        (Satisfied(r) /\ r.last_receive_time < r.timeout) =>
            /\ clock < r.timeout => r.msg \in have_successed_msgs(db, "w1", <<>>)
            /\ clock >= r.timeout => r.msg \notin have_successed_msgs(db, "w1", <<>>)

\* C6: status is ALL_RECEIVED exactly when no message is unreceived.
C6_StatusIffNoneUnreceived ==
    \A w \in Sensors :
        status(db, w) = ALL_RECEIVED <=> get_unreceived_msgs(db, w) = {}

\* C7: last_receive and last_receive_time of a record are both set or both
\* unset.
C7_ReceivedFieldsPaired ==
    \A r \in db : r.last_receive = None <=> r.last_receive_time = None

\* C8: at most one record per sensor and message.
C8_OneRecordPerPattern ==
    \A r1, r2 \in db : (r1.name = r2.name /\ r1.msg = r2.msg) => r1.id = r2.id

\* C9: a call that fails leaves the store as it found it.
C9_AllOrNothing ==
    (last.op \in {"sync", "reset", "arrival"} /\ ~last.ok) => db = pre

\* C10: update_on_receive sets last_receive and last_receive_time of the
\* records of the sensor with the matched message and nothing else; with no
\* such record the store is unchanged and the call does not fail.
C10_ArrivalFrame ==
    (last.op = "arrival" /\ last.fault = "none") =>
        LET Matches(r) == r.name = last.w /\ r.msg = last.match
            After(r) == IF Matches(r)
                        THEN [r EXCEPT !.last_receive = last.payload,
                                       !.last_receive_time = clock]
                        ELSE r
        IN  /\ last.ok
            /\ db = {After(r) : r \in pre}
            /\ \A r \in pre : \A x \in Same(db, r) : x.timeout = r.timeout
            /\ (\A r \in pre : ~Matches(r)) => db = pre

\* An arrival that updated one record of two.
C10_Witness ==
    /\ last.op = "arrival" /\ last.ok
    /\ \E r \in pre : r.name = last.w /\ r.msg = last.match /\ r \notin db
    /\ \E r \in pre : r.msg # last.match /\ r \in db

\* An arrival for a sensor that does not own the message, which another
\* sensor waits for.
C10_WitnessNoMatch ==
    /\ last.op = "arrival" /\ last.ok
    /\ last.w = "w2"
    /\ \E r \in pre : r.msg = last.match

\* C11: update_on_receive called again with the same sensor, message and
\* payload at the same time leaves the store as the first call left it.
C11_ArrivalIdempotent ==
    [][(last.op = "arrival" /\ last.ok /\ last' = last /\ clock' = clock)
        => db' = db]_vars

\* The state after the second of two equal arrivals that matched a record.
C11_Witness ==
    /\ last.op = "arrival" /\ last.ok
    /\ db = pre
    /\ \E r \in db : /\ r.name = last.w /\ r.msg = last.match
                      /\ r.last_receive = last.payload
                      /\ r.last_receive # None
                      /\ r.last_receive_time = clock

\* C12: a sync on a sensor without records creates, for every pattern of P,
\* an awaiting record whose timeout is the policy's for the now the caller
\* supplied; no record is without a timeout.
C12_FirstSyncDeadlines ==
    /\ (last.op = "sync" /\ last.ok /\ get_sensor_messages(pre, last.w) = {}) =>
           \A i \in 1..Len(last.msgs) :
               \E r \in get_sensor_messages(db, last.w) :
                   /\ r.msg = last.msgs[i]
                   /\ Awaiting(r)
                   /\ r.timeout = timeout(last.msgs[i], LastBaseTime)
    /\ \A r \in db : r.timeout # None

\* C13: a sync on a sensor that has records leaves every record whose
\* message is still wanted and whose timeout is not before now as it was.
C13_SurvivorsPreserved ==
    (last.op = "sync" /\ get_sensor_messages(pre, last.w) # {}) =>
        \A r \in get_sensor_messages(pre, last.w) :
            (r.msg \in Range(last.msgs) /\ r.timeout >= LastBaseTime) => r \in db

\* A sync that deleted a record and kept a received one as it was.
C13_Witness ==
    /\ last.op = "sync" /\ last.ok
    /\ \E r \in pre : r.name = last.w /\ r.msg \notin Range(last.msgs)
    /\ db # pre
    /\ \E r \in pre : /\ r.name = last.w
                       /\ r.msg \in Range(last.msgs)
                       /\ r.timeout >= LastBaseTime
                       /\ Satisfied(r)
                       /\ r \in db

\* C14: status is ALL_RECEIVED exactly when every record of the sensor has
\* last_receive and last_receive_time set, 0 being a set last_receive.
C14_StatusByNullness ==
    \A w \in Sensors :
        status(db, w) = ALL_RECEIVED <=>
            \A r \in get_sensor_messages(db, w) : Satisfied(r)

\* All received, with a record whose last_receive is 0.
C14_Witness ==
    /\ status(db, "w1") = ALL_RECEIVED
    /\ \E r \in get_sensor_messages(db, "w1") :
           r.last_receive = 0 /\ r.last_receive_time # None
    /\ status(db, "w2") = ALL_RECEIVED
    /\ get_sensor_messages(db, "w2") = {}

\* The lists of observed messages have_successed_msgs is asked with.
ObservedLists == {<<>>, <<MsgA>>, <<MsgB>>, <<MsgB, MsgA>>}

\* C15: have_successed_msgs returns exactly the messages of the records that
\* have both received fields set, were received before their timeout and
\* are not among the observed messages.
C15_CarriedOverExactly ==
    \A obs \in ObservedLists :
        have_successed_msgs(db, "w1", obs) =
            {r.msg : r \in {x \in get_sensor_messages(db, "w1") :
                               /\ Satisfied(x)
                               /\ x.last_receive_time < x.timeout
                               /\ ~InList(x.msg, obs)}}

\* C16: a sync with a source type or a frequency outside the validated sets
\* fails and leaves the store as it was, on either branch.
C16_InvalidAlwaysRejected ==
    (/\ last.op = "sync"
     /\ \/ last.st \notin available_source_type
        \/ \E i \in 1..Len(last.msgs) :
               last.msgs[i].frequency \notin available_frequency) =>
        (~last.ok /\ db = pre)

\* C19: after delete the sensor has no record, its status is ALL_RECEIVED,
\* nothing is unreceived, and the next sync inserts all of P as awaiting
\* records.
C19_DeleteClears ==
    (last.op = "delete" /\ last.ok) =>
        /\ get_sensor_messages(db, last.w) = {}
        /\ status(db, last.w) = ALL_RECEIVED
        /\ get_unreceived_msgs(db, last.w) = {}
        /\ \A P \in {<<MsgA>>, <<MsgA, MsgB>>, <<MsgB>>} : \A dt \in CallerTimes :
               LET o == initialize(db, nextId, last.w, "kafka", P, dt, "none")
                   new == get_sensor_messages(o.db, last.w)
               IN  /\ o.ok
                   /\ Cardinality(new) = Len(P)
                   /\ {r.msg : r \in new} = Range(P)
                   /\ \A r \in new : Awaiting(r) /\ r.id >= nextId

\* A delete of a received and an awaiting record.
C19_Witness ==
    /\ last.op = "delete" /\ last.ok
    /\ \E r \in pre : r.name = last.w /\ Satisfied(r)
    /\ \E r \in pre : r.name = last.w /\ Awaiting(r)
    /\ get_sensor_messages(db, last.w) = {}

\* C17: an operation called for one sensor leaves the records of every
\* other sensor, and the answers of the queries on them, as they were.
C17_SensorIsolation ==
    \A w \in Sensors \ {last.w} :
        /\ get_sensor_messages(db, w) = get_sensor_messages(pre, w)
        /\ status(db, w) = status(pre, w)
        /\ get_unreceived_msgs(db, w) = get_unreceived_msgs(pre, w)
        /\ \A obs \in ObservedLists :
               have_successed_msgs(db, w, obs) = have_successed_msgs(pre, w, obs)

\* A call that changed the records of one sensor while the other sensor
\* had a received record.
C17_Witness ==
    /\ last.op \in {"sync", "reset", "arrival", "delete"} /\ last.ok
    /\ get_sensor_messages(db, last.w) # get_sensor_messages(pre, last.w)
    /\ \E r \in db : r.name # last.w /\ Satisfied(r)

\* C18: in the scenario, the sync at t0 leaves two awaiting records with
\* the timeouts end of day and end of month of t0; after the arrival for A
\* an hour later the status is NOT_ALL_RECEIVED and B alone is unreceived;
\* after the arrival for B the status is ALL_RECEIVED; after the reset two
\* days after t0, A is awaiting with the end of that day as its timeout and
\* B is as it was.
C18_Scenario ==
    LET recs == get_sensor_messages(db, "w1")
    IN  /\ last.op = "sc_sync" =>
               /\ last.ok
               /\ Cardinality(recs) = Len(last.msgs)
               /\ \A r \in recs : Awaiting(r)
               /\ \E r \in recs : r.msg = MsgA /\ r.timeout = EndOfDay(last.dt)
               /\ \E r \in recs : r.msg = MsgB /\ r.timeout = EndOfMonth(last.dt)
        /\ last.op = "sc_arrival_a" =>
               /\ status(db, "w1") = NOT_ALL_RECEIVED
               /\ get_unreceived_msgs(db, "w1") = {MsgB}
        /\ last.op = "sc_arrival_b" => status(db, "w1") = ALL_RECEIVED
        /\ last.op = "sc_reset" =>
               /\ last.ok
               /\ \A r \in recs : r.msg = MsgA =>
                      /\ Awaiting(r)
                      /\ r.timeout = EndOfDay(clock)
                      /\ \A x \in Same(pre, r) : x.timeout < r.timeout
               /\ \A r \in pre : r.msg = MsgB => (r \in db /\ Satisfied(r))
               /\ Patterns(db, "w1") = {MsgA, MsgB}

\* The end of the scenario: A was received and is awaiting again, B is still
\* received.
C18_Witness ==
    /\ last.op = "sc_reset" /\ last.ok
    /\ \E r \in pre : r.msg = MsgA /\ Satisfied(r) /\ r \notin db
    /\ \E r \in db : r.msg = MsgA /\ Awaiting(r)
    /\ \E r \in db : r.msg = MsgB /\ Satisfied(r) /\ r.timeout >= clock

\* C20: a sync whose msg_list is None or a string, of any length, fails and
\* leaves the store as it was, whether the sensor has records or not.
C20_MalformedRejected ==
    last.op \in {"sync_none", "sync_str"} => (~last.ok /\ db = pre)

\* C21: after a sync on a sensor that has records, every surviving record
\* whose timeout was before now is awaiting with the recomputed timeout, and
\* every record the call inserted is awaiting with its fresh timeout.
C21_SyncRollsSurvivors ==
    (last.op = "sync" /\ last.ok /\ get_sensor_messages(pre, last.w) # {}) =>
        /\ \A r \in get_sensor_messages(pre, last.w) :
               (r.msg \in Range(last.msgs) /\ r.timeout < LastBaseTime) =>
                   \E x \in Same(db, r) :
                       /\ x.msg = r.msg
                       /\ Awaiting(x)
                       /\ x.timeout = timeout(r.msg, clock)
        /\ \A x \in get_sensor_messages(db, last.w) :
               Same(pre, x) = {} =>
                   /\ x.msg \in Range(last.msgs)
                   /\ Awaiting(x)
                   /\ x.timeout = timeout(x.msg, clock)

\* A sync that rolled a received survivor to a later timeout and inserted a
\* record.
C21_Witness ==
    /\ last.op = "sync" /\ last.ok
    /\ \E r \in get_sensor_messages(pre, last.w) :
           /\ r.msg \in Range(last.msgs)
           /\ r.timeout < LastBaseTime
           /\ Satisfied(r)
           /\ \E x \in Same(db, r) : Awaiting(x) /\ x.timeout > r.timeout
    /\ \E x \in get_sensor_messages(db, last.w) : Same(pre, x) = {}

\* C22: reset_timeout with a base time not after the end of the window in
\* which a record was received leaves the received fields of that record
\* as they are, whatever the timeout of the record was when it was received.
C22_ArrivalKeptForWindow ==
    (last.op = "reset" /\ last.ok) =>
        \A r \in get_sensor_messages(pre, last.w) :
            (/\ Satisfied(r)
             /\ LastBaseTime <= timeout(r.msg, r.last_receive_time)) =>
                \E x \in Same(db, r) :
                    /\ x.last_receive = r.last_receive
                    /\ x.last_receive_time = r.last_receive_time

\* C23 as stated: after reset_timeout no record of the sensor has a timeout
\* before the base time, whatever the clock of the policy reads.
C23_NoneBehindNow ==
    (last.op = "reset" /\ last.ok) =>
        \A r \in get_sensor_messages(db, last.w) : r.timeout >= LastBaseTime

\* C23: after reset_timeout no record of the sensor has a timeout before the
\* base time, unless the base time is after the end of the window of the
\* record's frequency that holds the clock of the policy.
C23_NoneBehindNowInWindow ==
    (last.op = "reset" /\ last.ok) =>
        \A r \in get_sensor_messages(db, last.w) :
            LastBaseTime <= timeout(r.msg, clock) => r.timeout >= LastBaseTime

\* A reset that rolled a record whose window, by the clock of the policy,
\* ends at or after the base time.
C23_Witness ==
    /\ last.op = "reset" /\ last.ok
    /\ \E r \in get_sensor_messages(pre, last.w) :
           /\ r.timeout < LastBaseTime
           /\ LastBaseTime <= timeout(r.msg, clock)
           /\ \E x \in Same(db, r) : x.timeout >= LastBaseTime

\* C24: in a call that passes no time of its own (the clock is now for the
\* caller and for the policy), the timeout of a record never decreases; it
\* changes only where reset_timeout runs, only for a record whose timeout is
\* before the clock, and only to a later value.
C24_TimeoutMonotone ==
    (last.op \in {"sync", "reset", "arrival"} /\ last.dt = None) =>
        \A r \in pre : \A x \in Same(db, r) :
            /\ x.timeout >= r.timeout
            /\ x.timeout # r.timeout =>
                   /\ last.op \in {"sync", "reset"}
                   /\ r.name = last.w
                   /\ r.timeout < clock
                   /\ x.timeout > r.timeout

\* A reset by the clock that moved a timeout, while a received record of
\* the sensor kept its own.
C24_Witness ==
    /\ last.op = "reset" /\ last.dt = None /\ last.ok
    /\ \E r \in pre : \E x \in Same(db, r) : x.timeout > r.timeout
    /\ \E r \in pre : r.name = last.w /\ Satisfied(r) /\ r \in db

\* C25: whenever the callers that ran initialize for the sensor at the same
\* time have all returned, the sensor has at most one record per message.
C25_ConcurrentSyncUnique ==
    (\A c \in Callers : session[c].pc = "idle") =>
        \A r1, r2 \in get_sensor_messages(db, "w1") :
            r1.msg = r2.msg => r1.id = r2.id

TypeOK ==
    /\ nextId \in 1..(MaxId + 1)
    /\ clock \in Times
    /\ \A r \in db : r.id \in 1..MaxId /\ r.name \in Sensors
====
